---------------------------- MODULE Spec2Model ----------------------------
(***************************************************************************)
(* The Green Ghost Index: the batch pipeline of src/main.py                *)
(*   create_master_data -> run_satellite_audit -> train_ghost_risk_model   *)
(*   -> measure_impact -> create_final_index -> generate_report_html       *)
(* as a state machine over small tables.                                   *)
(*                                                                         *)
(* Numbers.  A numeric cell is a pair <<n, d>>:                            *)
(*   d > 0   the rational n/d in lowest terms (floats are modelled as the  *)
(*           exact rationals they approximate),                            *)
(*   d = 0   NaN, the missing value of pandas,                             *)
(*   d < 0   a text cell that does not parse as a number.                  *)
(* A coordinate is a decimal <<w, f, k>> = w + f * 10^(-k) with            *)
(* 0 <= f < 10^k and no trailing zero in f, or NoCoord when missing:       *)
(* coordinates are only tested for presence and serialised, never computed *)
(* with.                                                                   *)
(* A table is a sequence of records; idx is the row's pandas index label.  *)
(***************************************************************************)
EXTENDS Integers, Sequences, FiniteSets, TLC

VARIABLES
    pc,             \* position in main(), or the function under analysis
    sensing,        \* "simulated" | "live": source of ndvi_change_metric
    raw_missing,    \* required raw files absent from data/raw
    raw_unreadable, \* raw files present under their name that read_csv cannot parse
    gee_outcome,    \* what the two getInfo() calls of one sensing query yield
    ndvi_change,    \* the value get_ndvi_change returned for gee_outcome
    template_ok,    \* report_template.html was found when the report stage opened it
    gem_df,         \* gem_trackers_raw.csv as loaded (the base project list)
    ti_df,          \* ti_cpi_2024.csv as loaded
    adb_df,         \* adb_projects_raw.csv as loaded
    master_df,      \* returned by create_master_data
    master_csv,     \* data/processed/master_project_data.csv
    audited_df,     \* returned by run_satellite_audit
    X_train,        \* training partition (raw features)
    X_test,         \* held-out partition after fillna
    mean_imputer,   \* X_train.mean()
    X_full,         \* df[features].fillna(mean_imputer) at scoring time
    model_file,     \* reports/rf_ghost_model.joblib written
    model_metrics,  \* metrics dict returned by train_ghost_risk_model
    df_with_score,  \* scored table returned by train_ghost_risk_model
    impact_metrics, \* dict returned by measure_impact
    final_index,    \* returned by create_final_index
    index_csv,      \* reports/final_green_ghost_index.csv
    index_json,     \* reports/final_green_ghost_index.json
    report_html,    \* reports/green_ghost_report.html written
    ran             \* the stages that have completed

vars == <<pc, sensing, raw_missing, raw_unreadable, gee_outcome, ndvi_change,
          template_ok, gem_df, ti_df, adb_df,
          master_df, master_csv, audited_df, X_train, X_test, mean_imputer,
          X_full, model_file, model_metrics, df_with_score, impact_metrics,
          final_index, index_csv, index_json, report_html, ran>>

---------------------------------------------------------------------------
(* Bounds of the model *)
MaxGem == 2
MaxTi == 2
MaxAdb == 2
MaxProjects == 3
MaxAudit == 2
MaxTrain == 3
MaxImpact == 2
MaxIndex == 3
MaxInput == 2
MaxTail == 2

---------------------------------------------------------------------------
(* Numeric cells *)
NaN == <<0, 0>>
Unparseable == <<0, -1>>

IsNum(x) == x[2] > 0
IsNaN(x) == x[2] = 0

Abs(n) == IF n < 0 THEN -n ELSE n

RECURSIVE GCD(_, _)
GCD(a, b) == IF b = 0 THEN a ELSE GCD(b, a % b)

Norm(n, d) == LET g == GCD(Abs(n), d) IN <<n \div g, d \div g>>

R(n, d) == Norm(n, d)
Zero == <<0, 1>>

RAdd(x, y) == IF IsNum(x) /\ IsNum(y)
                THEN Norm(x[1] * y[2] + y[1] * x[2], x[2] * y[2])
                ELSE NaN
RSub(x, y) == IF IsNum(x) /\ IsNum(y)
                THEN Norm(x[1] * y[2] - y[1] * x[2], x[2] * y[2])
                ELSE NaN
\* x / y for y > 0
RDiv(x, y) == IF IsNum(x) /\ IsNum(y) /\ y[1] > 0
                THEN Norm(x[1] * y[2], x[2] * y[1])
                ELSE NaN
\* comparisons with NaN are False, as in IEEE arithmetic
RLt(x, y) == IsNum(x) /\ IsNum(y) /\ x[1] * y[2] < y[1] * x[2]
RGe(x, y) == IsNum(x) /\ IsNum(y) /\ x[1] * y[2] >= y[1] * x[2]
RGt(x, y) == RLt(y, x)

\* pandas Series.sum(): NaN cells are skipped, the empty sum is 0
RECURSIVE ColSum(_)
ColSum(s) == IF s = <<>> THEN Zero
             ELSE IF IsNum(Head(s)) THEN RAdd(Head(s), ColSum(Tail(s)))
             ELSE ColSum(Tail(s))

RECURSIVE ColCount(_)
ColCount(s) == IF s = <<>> THEN 0
               ELSE (IF IsNum(Head(s)) THEN 1 ELSE 0) + ColCount(Tail(s))

\* mean counting every cell, a missing one as 0
ColMeanNaNAsZero(s) == IF Len(s) = 0 THEN NaN
                       ELSE RDiv(ColSum(s), <<Len(s), 1>>)

\* pandas Series.mean() / GroupBy.mean(): NaN cells are skipped, the mean of
\* no value is NaN
ColMean(s) == IF ColCount(s) = 0 THEN NaN
              ELSE RDiv(ColSum(s), <<ColCount(s), 1>>)

---------------------------------------------------------------------------
(* Tables *)
Col(t, f) == [i \in 1..Len(t) |-> t[i][f]]

RECURSIVE Flatten(_)
Flatten(ss) == IF ss = <<>> THEN <<>> ELSE Head(ss) \o Flatten(Tail(ss))

\* sequences over S of length lo..hi
SeqsOf(S, lo, hi) == UNION {[1..n -> S] : n \in lo..hi}

\* pd.merge(left, right, on='country', how='left') with one right column f:
\* every left row, in order, once per matching right row (in right order),
\* and once with f missing when no right row matches
LeftMerge(left, right, f) ==
    Flatten([i \in 1..Len(left) |->
        LET m == SelectSeq(right, LAMBDA r : r.country = left[i].country) IN
        IF m = <<>> THEN <<left[i] @@ (f :> NaN)>>
        ELSE [j \in 1..Len(m) |-> left[i] @@ (f :> m[j][f])]])

\* the RangeIndex 0..n-1 a merge leaves behind (labels here are 1..n)
ResetIndex(t) == [i \in 1..Len(t) |-> [t[i] EXCEPT !.idx = i]]

Countries == {"A", "B", "C"}
CountryOrder == <<"A", "B", "C">>

\* the countries that occur in t, in key order
KeysOf(t) == SelectSeq(CountryOrder, LAMBDA k : \E i \in 1..Len(t) : t[i].country = k)

\* the loan amounts of the records of country k
LoanGroup(t, k) == Col(SelectSeq(t, LAMBDA r : r.country = k), "total_loan_usd")

GroupMeanNaNAsZero(t) ==
    [i \in 1..Len(KeysOf(t)) |->
        [country |-> KeysOf(t)[i],
         total_loan_usd |-> ColMeanNaNAsZero(LoanGroup(t, KeysOf(t)[i]))]]

\* adb_df.groupby('country')['total_loan_usd'].mean().reset_index(): one row
\* per country that occurs, in key order
GroupMean(t) ==
    [i \in 1..Len(KeysOf(t)) |->
        [country |-> KeysOf(t)[i],
         total_loan_usd |-> ColMean(LoanGroup(t, KeysOf(t)[i]))]]

(* create_master_data, lines 43-69: the base list, the two left joins and   *)
(* the placeholder columns                                                  *)
MasterOf(gem, ti, adb) ==
    LET m1 == LeftMerge(gem, ti, "cpi_score")
        m2 == LeftMerge(m1, GroupMean(adb), "total_loan_usd")
    IN ResetIndex([i \in 1..Len(m2) |->
           m2[i] @@ [project_id |-> NaN, is_ghost |-> NaN, audit_status |-> "nan"]])

---------------------------------------------------------------------------
(* Input files.  load_data lower-cases the column names; the columns the    *)
(* pipeline reads are kept, project_type and start_year are carried through *)
(* unread and are left out.                                                 *)
NoCoord == <<0, 0, -1>>
HasCoord(c) == c[3] >= 0

GemRow(c, cap, lat, lon, st) ==
    [idx |-> 0, project_name |-> 0, country |-> c, funded_capacity_mw |-> cap,
     latitude |-> lat, longitude |-> lon, gem_status |-> st]

\* rows are named by their position in the file
Named(t) == [i \in 1..Len(t) |-> [t[i] EXCEPT !.idx = i, !.project_name = i]]

TiRows == {[country |-> "A", cpi_score |-> R(30, 1)],
           [country |-> "A", cpi_score |-> R(40, 1)],
           [country |-> "B", cpi_score |-> R(50, 1)]}

AdbRows == {[country |-> "A", total_loan_usd |-> R(100, 1)],
            [country |-> "A", total_loan_usd |-> R(200, 1)],
            [country |-> "A", total_loan_usd |-> NaN],
            [country |-> "B", total_loan_usd |-> NaN]}

\* the inventories of the merge analysis differ in country only
MergeGemRows == {GemRow(c, R(10, 1), <<15, 5, 1>>, <<25, 5, 1>>, "operating") : c \in Countries}

\* a list of the files whose tables the joins use
RequiredFilesJoined == {"adb_projects_raw.csv", "ti_cpi_2024.csv",
                        "gem_trackers_raw.csv"}

\* required_files of main, lines 152-153
RequiredFiles == {"adb_projects_raw.csv", "gcf_dashboard_raw.csv",
                  "ti_cpi_2024.csv", "gem_trackers_raw.csv"}

\* the paths create_master_data loads, in the order of lines 29-33
LoadedFiles == <<"adb_projects_raw.csv", "gcf_dashboard_raw.csv",
                 "ti_cpi_2024.csv", "gem_trackers_raw.csv">>

\* what data/raw can hold or lack.  A file supplied under another name or
\* extension is absent under its required name; a file of another type saved
\* under its required name (a workbook, an empty file) is present and is not
\* parsed by read_csv.
RawFiles == {LoadedFiles[i] : i \in 1..Len(LoadedFiles)}

\* the suffix str.endswith tests, for the paths the pipeline builds
Extension(file_path) == IF file_path \in RawFiles THEN ".csv" ELSE ""

\* load_data, lines 8-17: the outcome of the call, the frame itself being
\* gem_df, ti_df or adb_df
load_data(file_path, missing, unreadable) ==
    IF Extension(file_path) = ".csv"
      THEN IF file_path \in missing THEN "FileNotFoundError"
           ELSE IF file_path \in unreadable THEN "ParserError"
           ELSE "DataFrame"
    ELSE IF Extension(file_path) \in {".xlsx", ".xls"}
      THEN IF file_path \in missing THEN "FileNotFoundError" ELSE "DataFrame"
    ELSE "ValueError"

NoMetrics == [computed |-> FALSE]

\* everything a run has not produced yet
Blank ==
    /\ master_df = <<>> /\ master_csv = <<>> /\ audited_df = <<>>
    /\ X_train = <<>> /\ X_test = <<>> /\ mean_imputer = <<>> /\ X_full = <<>>
    /\ model_file = FALSE /\ model_metrics = NoMetrics /\ df_with_score = <<>>
    /\ impact_metrics = NoMetrics
    /\ final_index = <<>> /\ index_csv = <<>> /\ index_json = <<>>
    /\ report_html = FALSE

---------------------------------------------------------------------------
(* Step 1: create_master_data *)
create_master_data ==
    /\ pc = "merge"
    /\ \/ \* a load_data call raises: nothing catches it, in here or in main
          /\ \E i \in 1..Len(LoadedFiles) :
                load_data(LoadedFiles[i], raw_missing, raw_unreadable) # "DataFrame"
          /\ pc' = "crashed"
          /\ UNCHANGED <<master_df, master_csv, ran>>
       \/ /\ \A i \in 1..Len(LoadedFiles) :
                load_data(LoadedFiles[i], raw_missing, raw_unreadable) = "DataFrame"
          /\ master_df' = MasterOf(gem_df, ti_df, adb_df)
          /\ master_csv' = master_df'
          /\ ran' = ran \cup {"merge"}
          /\ pc' = "audit"
    /\ UNCHANGED <<sensing, raw_missing, raw_unreadable, gee_outcome, ndvi_change,
                   template_ok, gem_df, ti_df, adb_df,
                   audited_df, X_train, X_test, mean_imputer, X_full,
                   model_file, model_metrics, df_with_score, impact_metrics,
                   final_index, index_csv, index_json, report_html>>

---------------------------------------------------------------------------
(* Step 2: run_satellite_audit *)
Sentinel == R(999, 1)
One == <<1, 1>>

\* what the two reduceRegion(...).getInfo() calls of one project can yield:
\* an exception, or a mean per period, None (here NaN) when there is no pixel
NdviMeans == {NaN, Zero, R(3, 10), R(1, 2)}
\* no query is under way
NoQuery == [raises |-> FALSE, mean_start |-> NaN, mean_end |-> NaN]

GeeOutcomes ==
    {[raises |-> TRUE, mean_start |-> NaN, mean_end |-> NaN]} \cup
    {[raises |-> FALSE, mean_start |-> s, mean_end |-> e] :
        s \in NdviMeans, e \in NdviMeans}

\* Python truth value of a getInfo() result
Truthy(x) == IsNum(x) /\ x[1] # 0

get_ndvi_change(q) ==
    IF q.raises THEN Sentinel
    ELSE IF Truthy(q.mean_start) /\ Truthy(q.mean_end)
         THEN RSub(q.mean_start, q.mean_end)
         ELSE Sentinel

LiveMetrics == {get_ndvi_change(q) : q \in GeeOutcomes}

\* one call of get_ndvi_change, from the outcome of its query to its return
call_get_ndvi_change ==
    /\ pc = "sensing"
    /\ ndvi_change' = get_ndvi_change(gee_outcome)
    /\ pc' = "sensed"
    /\ UNCHANGED <<sensing, raw_missing, raw_unreadable, gee_outcome,
                   template_ok, gem_df, ti_df, adb_df,
                   master_df, master_csv, audited_df, X_train, X_test,
                   mean_imputer, X_full, model_file, model_metrics,
                   df_with_score, impact_metrics, final_index, index_csv,
                   index_json, report_html, ran>>

\* np.random.uniform(low, high): a value of [low, high); the draws of the
\* seeded generator are not computed, any value of the range may come out
MetricGrid == {R(1, 1000), R(1, 20), R(1, 10)}
Uniform(low, high) == {v \in MetricGrid : RGe(v, low) /\ RLt(v, high)}

NoChangeStatuses == {"cancelled", "announced"}
ActiveStatuses == {"operating", "construction", "pre-construction", "retired"}
Statuses == ActiveStatuses \cup NoChangeStatuses \cup {"shelved"}

\* the metrics the audit can attach to one row: those of the simulation
\* block (lines 64-69), or, with the sensing call of lines 59 and 73 in
\* place of the simulation, those get_ndvi_change returns
MetricsFor(row, mode) ==
    IF mode = "live" THEN LiveMetrics
    ELSE IF row.gem_status \in NoChangeStatuses
         THEN Uniform(R(1, 1000), R(1, 100))
         ELSE Uniform(R(1, 1000), R(2, 10))

LowChange(metric) == RLt(metric, R(5, 100))

IsGhostIgnoringStatus(metric, status) == IF LowChange(metric) THEN One ELSE Zero

\* lines 80-84: low_change_mask & active_mask, as 0/1
IsGhost(metric, status) ==
    IF LowChange(metric) /\ status \in ActiveStatuses THEN One ELSE Zero

AuditStatus(label) ==
    IF label = One THEN "Ghost Flagged" ELSE "Activity Visible/Inactive"

AuditedOf(master, m) ==
    [i \in 1..Len(master) |->
        [master[i] EXCEPT !.is_ghost = IsGhost(m[i], master[i].gem_status),
                          !.audit_status =
                              AuditStatus(IsGhost(m[i], master[i].gem_status))]
        @@ [ndvi_change_metric |-> m[i]]]

MetricChoices(master, mode) ==
    {m \in [1..Len(master) -> MetricGrid \cup LiveMetrics] :
        \A i \in 1..Len(master) : m[i] \in MetricsFor(master[i], mode)}

run_satellite_audit ==
    /\ pc = "audit"
    /\ \E m \in MetricChoices(master_df, sensing) :
          audited_df' = AuditedOf(master_df, m)
    /\ ran' = ran \cup {"audit"}
    /\ pc' = "train"
    /\ UNCHANGED <<sensing, raw_missing, raw_unreadable, gee_outcome, ndvi_change,
                   template_ok, gem_df, ti_df, adb_df,
                   master_df, master_csv, X_train, X_test, mean_imputer, X_full,
                   model_file, model_metrics, df_with_score, impact_metrics,
                   final_index, index_csv, index_json, report_html>>

\* the raw tables of the scenario of three countries: A is financed (100 and
\* 200) and scored, B is scored but its financing record has no amount, C is
\* financed (300) but has no governance score
ScenarioTi == <<[country |-> "A", cpi_score |-> R(30, 1)],
                [country |-> "B", cpi_score |-> R(50, 1)]>>
ScenarioAdb == <<[country |-> "A", total_loan_usd |-> R(100, 1)],
                 [country |-> "A", total_loan_usd |-> R(200, 1)],
                 [country |-> "B", total_loan_usd |-> NaN],
                 [country |-> "C", total_loan_usd |-> R(300, 1)]>>

\* the inventories of the audit analysis differ in lifecycle status only
AuditGemRows == {GemRow("A", R(10, 1), <<15, 5, 1>>, <<25, 5, 1>>, st) : st \in Statuses}

---------------------------------------------------------------------------
(* Step 3: train_ghost_risk_model.  The fitted RandomForestClassifier is    *)
(* an opaque function of the three imputed features: any function into the  *)
(* probabilities of Scores may be the fitted one.  The permutation that     *)
(* train_test_split draws from random_state=42 is not computed: any test    *)
(* partition of the right size may come out.                                *)
Features == {"total_loan_usd", "cpi_score", "ndvi_change_metric"}

Scores == {R(1, 2), R(4, 5)}

KeepAll(audited) == audited

\* lines 16 and 23: drop the rows of the sentinel, then those without a label
Eligible(audited) ==
    SelectSeq(SelectSeq(audited, LAMBDA r : r.ndvi_change_metric # Sentinel),
           LAMBDA r : ~IsNaN(r.is_ghost))

\* X = df[features], with the index
FeatureCols(df) ==
    [i \in 1..Len(df) |->
        [idx |-> df[i].idx, total_loan_usd |-> df[i].total_loan_usd,
         cpi_score |-> df[i].cpi_score,
         ndvi_change_metric |-> df[i].ndvi_change_metric]]

\* test_size=0.2: n_test = ceil(0.2 * n), n_train = n - n_test
NTest(n) == (n + 4) \div 5

TestSets(df) ==
    {T \in SUBSET {df[i].idx : i \in 1..Len(df)} : Cardinality(T) = NTest(Len(df))}

TrainPart(X, test) == SelectSeq(X, LAMBDA r : r.idx \notin test)
TestPart(X, test) == SelectSeq(X, LAMBDA r : r.idx \in test)

MeanOfAll(X, test) == [f \in Features |-> ColMean(Col(X, f))]

\* line 32: mean_imputer = X_train.mean()
MeanImputer(X, test) == [f \in Features |-> ColMean(Col(TrainPart(X, test), f))]

\* DataFrame.fillna(Series): a missing cell takes the value of its column
Fillna(X, fill) ==
    [i \in 1..Len(X) |->
        [f \in DOMAIN X[i] |->
            IF f \in Features /\ IsNaN(X[i][f]) THEN fill[f] ELSE X[i][f]]]

FeatureVec(r) == <<r.total_loan_usd, r.cpi_score, r.ndvi_change_metric>>

\* the fitted models: functions from the feature vectors at hand to Scores
Models(X) == [{FeatureVec(X[i]) : i \in 1..Len(X)} -> Scores]

Scored(df, X, model) ==
    [i \in 1..Len(df) |-> df[i] @@ [ghost_risk_score |-> model[FeatureVec(X[i])]]]

train_ghost_risk_model ==
    /\ pc = "train"
    /\ LET df == Eligible(audited_df)
           X == FeatureCols(df)
       IN \/ \* train_test_split raises: the training partition would be empty
             /\ Len(df) - NTest(Len(df)) = 0
             /\ pc' = "crashed"
             /\ UNCHANGED <<X_train, X_test, mean_imputer, X_full, model_file,
                            model_metrics, df_with_score, ran>>
          \/ \E test \in TestSets(df) :
                /\ Len(df) - NTest(Len(df)) > 0
                /\ X_train' = TrainPart(X, test)
                /\ mean_imputer' = MeanImputer(X, test)
                /\ X_test' = Fillna(TestPart(X, test), mean_imputer')
                /\ \/ \* joblib.dump raises: nothing catches it
                      /\ pc' = "crashed"
                      /\ UNCHANGED <<X_full, model_file, model_metrics,
                                     df_with_score, ran>>
                   \/ /\ model_file' = TRUE
                      /\ X_full' = Fillna(X, mean_imputer')
                      /\ \E model \in Models(X_full') :
                            df_with_score' = Scored(df, X_full', model)
                      /\ model_metrics' = [computed |-> TRUE]
                      /\ ran' = ran \cup {"train"}
                      /\ pc' = "impact"
    /\ UNCHANGED <<sensing, raw_missing, raw_unreadable, gee_outcome, ndvi_change,
                   template_ok, gem_df, ti_df, adb_df,
                   master_df, master_csv, audited_df, impact_metrics,
                   final_index, index_csv, index_json, report_html>>

\* the inventories of the training analysis: operating projects of the three
\* countries
TrainGemRows ==
    {GemRow(c, R(10, 1), <<15, 5, 1>>, <<25, 5, 1>>, "operating") : c \in Countries}

\* the audited tables of the training analysis: the live audit of such an
\* inventory, each project with one of two results
TrainMetrics ==
    ({"B"} \X {Sentinel, R(1, 5)}) \cup ({"A", "C"} \X {Zero, R(1, 5)})

---------------------------------------------------------------------------
(* Step 4: measure_impact *)
RiskThreshold == R(8, 10)

\* the table as it is when the clean-up is done on a copy of it
Untouched(df) == df

\* pd.to_numeric(errors='coerce').fillna(0)
CoerceFillZero(x) == IF IsNum(x) THEN x ELSE Zero

Coerced(df) ==
    [i \in 1..Len(df) |->
        [df[i] EXCEPT !.total_loan_usd = CoerceFillZero(@),
                      !.funded_capacity_mw = CoerceFillZero(@)]]

RatioUnguarded(part, total) == RDiv(part, total)

\* lines 56-59: part / total if total > 0 else 0
Ratio(part, total) == IF RGt(total, Zero) THEN RDiv(part, total) ELSE Zero

ImpactOf(df, risk_threshold) ==
    LET audited_ghosts == SelectSeq(df, LAMBDA r : r.is_ghost = One)
        predicted_ghosts ==
            SelectSeq(df, LAMBDA r : RGe(r.ghost_risk_score, risk_threshold))
        total_loan == ColSum(Col(df, "total_loan_usd"))
        total_cap == ColSum(Col(df, "funded_capacity_mw"))
        risk_loan == ColSum(Col(predicted_ghosts, "total_loan_usd"))
        risk_cap == ColSum(Col(predicted_ghosts, "funded_capacity_mw"))
    IN [computed |-> TRUE,
        risk_threshold |-> risk_threshold,
        total_projects |-> Len(df),
        total_portfolio_loan_usd |-> total_loan,
        total_portfolio_capacity_mw |-> total_cap,
        audited_lost_loan_usd |-> ColSum(Col(audited_ghosts, "total_loan_usd")),
        audited_lost_capacity_mw |->
            ColSum(Col(audited_ghosts, "funded_capacity_mw")),
        audited_ghost_project_count |-> Len(audited_ghosts),
        predicted_at_risk_loan_usd |-> risk_loan,
        predicted_at_risk_capacity_mw |-> risk_cap,
        predicted_at_risk_project_count |-> Len(predicted_ghosts),
        pct_loans_at_risk |-> Ratio(risk_loan, total_loan),
        pct_capacity_at_risk |-> Ratio(risk_cap, total_cap)]

\* main passes df_with_score; the two columns are overwritten in place
measure_impact ==
    /\ pc = "impact"
    /\ df_with_score' = Coerced(df_with_score)
    /\ impact_metrics' = ImpactOf(df_with_score', RiskThreshold)
    /\ ran' = ran \cup {"impact"}
    /\ pc' = "index"
    /\ UNCHANGED <<sensing, raw_missing, raw_unreadable, gee_outcome, ndvi_change,
                   template_ok, gem_df, ti_df, adb_df,
                   master_df, master_csv, audited_df, X_train, X_test,
                   mean_imputer, X_full, model_file, model_metrics,
                   final_index, index_csv, index_json, report_html>>

---------------------------------------------------------------------------
(* Step 5: create_final_index *)
Perms(n) == {p \in [1..n -> 1..n] : \A i, j \in 1..n : p[i] = p[j] => i = j}

SortedAscending(t) ==
    \A i \in 1..Len(t) - 1 : ~RGt(t[i].ghost_risk_score, t[i + 1].ghost_risk_score)

SortedDescending(t) ==
    \A i \in 1..Len(t) - 1 : ~RLt(t[i].ghost_risk_score, t[i + 1].ghost_risk_score)

\* df.sort_values(by='ghost_risk_score', ascending=False): the default sort
\* is not stable, rows of equal score come out in any order
SortValues(df) ==
    {[i \in 1..Len(df) |-> df[p[i]]] : p \in
        {q \in Perms(Len(df)) : SortedDescending([i \in 1..Len(df) |-> df[q[i]]])}}

\* the eleven columns of the index (project_type is not modelled)
IndexCols(t) ==
    [i \in 1..Len(t) |->
        [idx |-> t[i].idx, project_id |-> t[i].project_id,
         project_name |-> t[i].project_name, country |-> t[i].country,
         latitude |-> t[i].latitude, longitude |-> t[i].longitude,
         ghost_risk_score |-> t[i].ghost_risk_score, is_ghost |-> t[i].is_ghost,
         funded_capacity_mw |-> t[i].funded_capacity_mw,
         total_loan_usd |-> t[i].total_loan_usd,
         audit_status |-> t[i].audit_status]]

\* DataFrame.to_csv(index=False): the index is not written; floats are
\* written with repr, the shortest decimal that reads back as the same float
CsvRow(r) == [f \in DOMAIN r \ {"idx"} |-> r[f]]
ToCsv(t) == [i \in 1..Len(t) |-> CsvRow(t[i])]

\* DataFrame.to_json writes a float with at most double_precision=10
\* decimals, rounded (a half goes up after an odd or a zero digit)
JsonPrecision == 10

RECURSIVE Pow10(_)
Pow10(k) == IF k = 0 THEN 1 ELSE 10 * Pow10(k - 1)

RECURSIVE StripZeros(_)
StripZeros(c) == IF c[3] > 0 /\ c[2] % 10 = 0
                   THEN StripZeros(<<c[1], c[2] \div 10, c[3] - 1>>)
                   ELSE c

JsonCoord(c) ==
    IF c[3] <= JsonPrecision THEN c
    ELSE LET unit == Pow10(c[3] - JsonPrecision)
             q == c[2] \div unit
             rem == c[2] % unit
             up == 2 * rem > unit \/ (2 * rem = unit /\ (q = 0 \/ q % 2 = 1))
         IN \* the fractions modelled stay below 10^JsonPrecision after rounding:
            \* the whole part is never carried into
            StripZeros(<<c[1], IF up THEN q + 1 ELSE q, JsonPrecision>>)

\* d divides 10^k: n/d is a decimal of at most k places
RECURSIVE FitsDecimals(_, _)
FitsDecimals(d, k) ==
    IF d = 1 THEN TRUE
    ELSE IF k = 0 \/ GCD(d, 10) = 1 THEN FALSE
    ELSE FitsDecimals(d \div GCD(d, 10), k - 1)

\* the probabilities of Scores have at most JsonPrecision decimals and are
\* written exactly; other values are not modelled
JsonNumber(x) == IF FitsDecimals(x[2], JsonPrecision) THEN x ELSE NaN

\* lines 80-84: the rows with both coordinates, the five map columns
ToJson(t) ==
    LET m == SelectSeq(t, LAMBDA r : HasCoord(r.latitude) /\ HasCoord(r.longitude))
    IN [i \in 1..Len(m) |->
           [project_name |-> m[i].project_name, country |-> m[i].country,
            latitude |-> JsonCoord(m[i].latitude),
            longitude |-> JsonCoord(m[i].longitude),
            ghost_risk_score |-> JsonNumber(m[i].ghost_risk_score)]]

create_final_index ==
    /\ pc = "index"
    /\ \E sorted \in SortValues(df_with_score) :
          final_index' = IndexCols(sorted)
    /\ index_csv' = ToCsv(final_index')
    /\ index_json' = ToJson(final_index')
    /\ ran' = ran \cup {"index"}
    /\ pc' = "report"
    /\ UNCHANGED <<sensing, raw_missing, raw_unreadable, gee_outcome, ndvi_change,
                   template_ok, gem_df, ti_df, adb_df,
                   master_df, master_csv, audited_df, X_train, X_test,
                   mean_imputer, X_full, model_file, model_metrics,
                   df_with_score, impact_metrics, report_html>>

---------------------------------------------------------------------------
(* Step 6: generate_report_html *)
\* the stage without the handler of lines 44-46: the FileNotFoundError of a
\* missing template leaves main
generate_report_html_unhandled ==
    /\ pc = "report"
    /\ \/ /\ template_ok' = FALSE
          /\ pc' = "crashed"
          /\ UNCHANGED <<report_html, ran>>
       \/ /\ template_ok' = TRUE
          /\ report_html' \in {TRUE, report_html}
          /\ ran' = ran \cup {"report"}
          /\ pc' = "done"
    /\ UNCHANGED <<sensing, raw_missing, raw_unreadable, gee_outcome, ndvi_change,
                   gem_df, ti_df, adb_df,
                   master_df, master_csv, audited_df, X_train, X_test,
                   mean_imputer, X_full, model_file, model_metrics,
                   df_with_score, impact_metrics, final_index, index_csv,
                   index_json>>

generate_report_html ==
    /\ pc = "report"
    /\ \/ \* the template is missing: FATAL ERROR is printed, nothing is written
          /\ template_ok' = FALSE
          /\ UNCHANGED report_html
       \/ \* the report is written
          /\ template_ok' = TRUE
          /\ report_html' = TRUE
       \/ \* open(output_path, 'w') or the write raises: a warning
          /\ template_ok' = TRUE
          /\ UNCHANGED report_html
    /\ ran' = ran \cup {"report"}
    /\ pc' = "done"
    /\ UNCHANGED <<sensing, raw_missing, raw_unreadable, gee_outcome, ndvi_change,
                   gem_df, ti_df, adb_df,
                   master_df, master_csv, audited_df, X_train, X_test,
                   mean_imputer, X_full, model_file, model_metrics,
                   df_with_score, impact_metrics, final_index, index_csv,
                   index_json>>

---------------------------------------------------------------------------
(* main *)
\* lines 154-159: the required files that os.path.exists does not find
missing_files(missing) == {filename \in RequiredFiles : filename \in missing}

preflight ==
    /\ pc = "preflight"
    /\ pc' = IF missing_files(raw_missing) # {} THEN "halted" ELSE "merge"
    /\ UNCHANGED <<sensing, raw_missing, raw_unreadable, gee_outcome, ndvi_change,
                   template_ok, gem_df, ti_df, adb_df,
                   master_df, master_csv, audited_df, X_train, X_test,
                   mean_imputer, X_full, model_file, model_metrics,
                   df_with_score, impact_metrics, final_index, index_csv,
                   index_json, report_html, ran>>

\* the inventories of a whole run: a financed operating project, a cancelled
\* project of a country without financing amount and without capacity, and a
\* project under construction whose capacity is text and whose latitude is
\* missing
MainGemRows ==
    {GemRow("A", R(10, 1), <<15, 5, 1>>, <<25, 5, 1>>, "operating"),
     GemRow("B", NaN, <<15, 12, 11>>, <<25, 5, 1>>, "cancelled"),
     GemRow("C", Unparseable, NoCoord, <<25, 5, 1>>, "construction")}

\* the start of main on any state of data/raw: the tables are those three
\* readable files hold, and are given only when all four files can be read
RunStart(modes, gems) ==
    /\ pc = "preflight" /\ ran = {}
    /\ sensing \in modes
    /\ raw_missing \in SUBSET RawFiles
    /\ raw_unreadable \in SUBSET (RawFiles \ raw_missing)
    /\ gee_outcome = NoQuery /\ ndvi_change = NaN
    /\ template_ok = TRUE
    /\ IF raw_missing = {} /\ raw_unreadable = {}
         THEN /\ gem_df \in gems
              /\ ti_df = ScenarioTi /\ adb_df = ScenarioAdb
         ELSE gem_df = <<>> /\ ti_df = <<>> /\ adb_df = <<>>
    /\ Blank

Init ==
    RunStart({"simulated", "live"},
             {Named(t) : t \in SeqsOf(MainGemRows, 0, MaxProjects)})

Next ==
    \/ preflight
    \/ create_master_data
    \/ run_satellite_audit
    \/ train_ghost_risk_model
    \/ measure_impact
    \/ create_final_index
    \/ generate_report_html

Spec == Init /\ [][Next]_vars

---------------------------------------------------------------------------
(* The functions on their own: each is applied to the tables that the       *)
(* stages before it produce from wider inputs than those of a whole run.    *)
StageNo == [merge |-> 1, audit |-> 2, train |-> 3, impact |-> 4, index |-> 5]

\* the state in which main calls `stage`, the stages before it having run on
\* an inventory of gems, the audit attaching metrics of allowed (pairs of a
\* country and a metric)
StartAt(stage, gems, tis, adbs, modes, allowed) ==
    /\ pc = stage
    /\ ran = {st \in DOMAIN StageNo : StageNo[st] < StageNo[stage]}
    /\ sensing \in modes /\ raw_missing = {} /\ template_ok = TRUE
    /\ raw_unreadable \in IF stage = "merge" THEN SUBSET RawFiles ELSE {{}}
    /\ gee_outcome = NoQuery /\ ndvi_change = NaN
    /\ IF raw_unreadable = {}
         THEN gem_df \in gems /\ ti_df \in tis /\ adb_df \in adbs
         ELSE gem_df = <<>> /\ ti_df = <<>> /\ adb_df = <<>>
    /\ master_df = IF "merge" \in ran THEN MasterOf(gem_df, ti_df, adb_df) ELSE <<>>
    /\ master_csv = master_df
    /\ IF "audit" \in ran
         THEN \E m \in MetricChoices(master_df, sensing) :
                 /\ \A i \in 1..Len(master_df) :
                       <<master_df[i].country, m[i]>> \in allowed
                 /\ audited_df = AuditedOf(master_df, m)
         ELSE audited_df = <<>>
    /\ IF "train" \in ran
         THEN LET df == Eligible(audited_df)
                  X == FeatureCols(df)
              IN \E test \in TestSets(df) :
                    /\ Len(df) - NTest(Len(df)) > 0
                    /\ X_train = TrainPart(X, test)
                    /\ mean_imputer = MeanImputer(X, test)
                    /\ X_test = Fillna(TestPart(X, test), mean_imputer)
                    /\ X_full = Fillna(X, mean_imputer)
                    /\ \E model \in Models(X_full) :
                          df_with_score =
                             IF "impact" \in ran
                               THEN Coerced(Scored(df, X_full, model))
                               ELSE Scored(df, X_full, model)
                    /\ model_file = TRUE
                    /\ model_metrics = [computed |-> TRUE]
         ELSE /\ X_train = <<>> /\ X_test = <<>> /\ mean_imputer = <<>>
              /\ X_full = <<>> /\ df_with_score = <<>>
              /\ model_file = FALSE /\ model_metrics = NoMetrics
    /\ impact_metrics = IF "impact" \in ran
                          THEN ImpactOf(df_with_score, RiskThreshold)
                          ELSE NoMetrics
    /\ final_index = <<>> /\ index_csv = <<>> /\ index_json = <<>>
    /\ report_html = FALSE

AnyMetric == Countries \X (MetricGrid \cup LiveMetrics)

\* create_master_data applied to any three raw tables within the bounds
InitMerge ==
    StartAt("merge", {Named(t) : t \in SeqsOf(MergeGemRows, 0, MaxGem)},
            SeqsOf(TiRows, 0, MaxTi), SeqsOf(AdbRows, 0, MaxAdb),
            {"simulated"}, AnyMetric)

NextMerge == create_master_data

SpecMerge == InitMerge /\ [][NextMerge]_vars

\* run_satellite_audit applied to the master table of an inventory of any
\* statuses, with the simulated and with the live metric
InitAudit ==
    StartAt("audit", {Named(t) : t \in SeqsOf(AuditGemRows, 0, MaxAudit)},
            {ScenarioTi}, {ScenarioAdb}, {"simulated", "live"}, AnyMetric)

NextAudit == run_satellite_audit

SpecAudit == InitAudit /\ [][NextAudit]_vars

\* main from the call of train_ghost_risk_model on, applied to the live
\* audit of any inventory of operating projects
InitTrain ==
    StartAt("train", {Named(t) : t \in SeqsOf(TrainGemRows, 0, MaxTrain)},
            {ScenarioTi}, {ScenarioAdb}, {"live"}, TrainMetrics)

NextTrain == train_ghost_risk_model \/ measure_impact \/ create_final_index

SpecTrain == InitTrain /\ [][NextTrain]_vars

\* the inventories of the impact analysis differ in country (hence in
\* financing proxy) and in capacity: a number, zero, missing, or text
ImpactGemRows ==
    {GemRow(c, cap, <<15, 5, 1>>, <<25, 5, 1>>, "operating") :
        c \in {"A", "B"}, cap \in {R(10, 1), Zero, NaN, Unparseable}}

LowestMetric == Countries \X {R(1, 1000)}
LowOrHighMetric == Countries \X {R(1, 1000), R(1, 10)}

\* measure_impact applied to the scored table of any such inventory
InitImpact ==
    StartAt("impact", {Named(t) : t \in SeqsOf(ImpactGemRows, 0, MaxImpact)},
            {ScenarioTi}, {ScenarioAdb}, {"simulated"}, LowOrHighMetric)

NextImpact == measure_impact

SpecImpact == InitImpact /\ [][NextImpact]_vars

\* the inventories of the index analysis differ in country (hence in score)
\* and in coordinates: both present, one missing, or a latitude of eleven
\* decimals (15.00000000012)
IndexGemRows ==
    {GemRow("A", R(10, 1), <<15, 5, 1>>, <<25, 5, 1>>, "operating"),
     GemRow("A", R(10, 1), NoCoord, <<25, 5, 1>>, "operating"),
     GemRow("B", R(10, 1), <<15, 5, 1>>, NoCoord, "operating"),
     GemRow("B", R(10, 1), <<15, 12, 11>>, <<25, 5, 1>>, "operating")}

\* create_final_index applied to the scored table of any such inventory
InitIndex ==
    StartAt("index", {Named(t) : t \in SeqsOf(IndexGemRows, 0, MaxIndex)},
            {ScenarioTi}, {ScenarioAdb}, {"simulated"}, LowestMetric)

NextIndex == create_final_index

SpecIndex == InitIndex /\ [][NextIndex]_vars

\* the inventories of the last stages differ in country and in capacity: a
\* number, missing, or text
TailGemRows ==
    {GemRow(c, cap, <<15, 5, 1>>, <<25, 5, 1>>, "operating") :
        c \in {"A", "B"}, cap \in {R(10, 1), NaN, Unparseable}}

\* a financing table without any record of country B
AdbOfA == <<[country |-> "A", total_loan_usd |-> R(100, 1)]>>

\* main from the call of measure_impact on (lines 192-207), country B being
\* financed without amount or not at all
InitTail ==
    StartAt("impact", {Named(t) : t \in SeqsOf(TailGemRows, 0, MaxTail)},
            {ScenarioTi}, {ScenarioAdb, AdbOfA}, {"simulated"}, LowestMetric)

NextTail == measure_impact \/ create_final_index \/ generate_report_html

SpecTail == InitTail /\ [][NextTail]_vars

\* the period means of the analysis of get_ndvi_change: none, zero, and
\* values of both signs up to the ends of the NDVI range
NdviGrid == NdviMeans \cup {R(-1, 1), R(-1, 10), R(1, 10), One}

\* get_ndvi_change applied to any outcome of its query
InitNdvi ==
    /\ pc = "sensing" /\ ran = {}
    /\ sensing = "live" /\ raw_missing = {} /\ raw_unreadable = {}
    /\ template_ok = TRUE
    /\ gem_df = <<>> /\ ti_df = <<>> /\ adb_df = <<>>
    /\ gee_outcome \in
          {[raises |-> TRUE, mean_start |-> NaN, mean_end |-> NaN]} \cup
          {[raises |-> FALSE, mean_start |-> st, mean_end |-> en] :
              st \in NdviGrid, en \in NdviGrid}
    /\ ndvi_change = NaN
    /\ Blank

NextNdvi == call_get_ndvi_change

SpecNdvi == InitNdvi /\ [][NextNdvi]_vars

\* main on any state of data/raw, with the simulated audit of the code as it
\* stands and a short inventory
InitInput ==
    RunStart({"simulated"}, {Named(t) : t \in SeqsOf(MainGemRows, 0, MaxInput)})

SpecInput == InitInput /\ [][Next]_vars

---------------------------------------------------------------------------
(* C1: the master table has exactly as many rows as the inventory: the two  *)
(* left joins never drop and never duplicate an inventory row.              *)
C1_RowCount == "merge" \in ran => Len(master_df) = Len(gem_df)

\* every inventory row is kept at least once, in order: rows are never dropped
C1_NeverDropped ==
    "merge" \in ran =>
        /\ Len(master_df) >= Len(gem_df)
        /\ \A i \in 1..Len(gem_df) :
               \E j \in 1..Len(master_df) :
                   master_df[j].project_name = gem_df[i].project_name

(* C5: every project's total_loan_usd is the mean of the non-missing loan   *)
(* amounts of its country's financing records (sum = proxy * count), and is *)
(* missing when the country has no record with a value; two projects of one *)
(* country carry the same proxy.                                            *)
LoansOf(c) == Col(SelectSeq(adb_df, LAMBDA r : r.country = c), "total_loan_usd")

C5_CountryProxy ==
    "merge" \in ran =>
        /\ \A i \in 1..Len(master_df) :
             LET p == master_df[i].total_loan_usd
                 n == Cardinality({k \in 1..Len(adb_df) :
                         adb_df[k].country = master_df[i].country
                         /\ IsNum(adb_df[k].total_loan_usd)})
                 s == ColSum(LoansOf(master_df[i].country))
             IN IF n = 0 THEN IsNaN(p)
                ELSE IsNum(p) /\ p[1] * n * s[2] = s[1] * p[2]
        /\ \A i, j \in 1..Len(master_df) :
             master_df[i].country = master_df[j].country
                => master_df[i].total_loan_usd = master_df[j].total_loan_usd
        /\ master_csv = master_df

\* two projects of country A carry a proxy averaged over A's records, one of
\* which has no amount
C5_Witness ==
    /\ "merge" \in ran
    /\ \E i, j \in 1..Len(master_df) :
          /\ i # j /\ master_df[i].country = "A" /\ master_df[j].country = "A"
          /\ IsNum(master_df[i].total_loan_usd)
    /\ \E k \in 1..Len(adb_df) :
          adb_df[k].country = "A" /\ IsNaN(adb_df[k].total_loan_usd)

(* C2: after the audit, is_ghost is 1 exactly for the projects whose change *)
(* metric is below 0.05 and whose status is operating, construction,        *)
(* pre-construction or retired, and 0 for every other project; a cancelled  *)
(* or announced project is never labelled 1.                                *)
C2_LabelRule ==
    "audit" \in ran =>
        /\ Len(audited_df) = Len(master_df)
        /\ \A i \in 1..Len(audited_df) :
             LET r == audited_df[i]
                 m == r.ndvi_change_metric
                 low == m[2] > 0 /\ m[1] * 100 < 5 * m[2]
                 active == r.gem_status \in
                     {"operating", "construction", "pre-construction", "retired"}
             IN /\ r.is_ghost \in {<<0, 1>>, <<1, 1>>}
                /\ r.is_ghost = <<1, 1>> <=> (low /\ active)
                /\ r.gem_status \in {"cancelled", "announced"}
                      => r.is_ghost = <<0, 1>>

\* a cancelled project with a metric below 0.05 labelled 0 beside an active
\* project with a metric below 0.05 labelled 1
C2_Witness ==
    /\ "audit" \in ran
    /\ \E i, j \in 1..Len(audited_df) :
          /\ audited_df[i].gem_status = "cancelled"
          /\ RLt(audited_df[i].ndvi_change_metric, R(5, 100))
          /\ audited_df[i].is_ghost = Zero
          /\ audited_df[j].gem_status = "retired"
          /\ RLt(audited_df[j].ndvi_change_metric, R(5, 100))
          /\ audited_df[j].is_ghost = One

IdxOf(t) == {t[i].idx : i \in 1..Len(t)}
SentinelIdx == {audited_df[i].idx : i \in
                   {k \in 1..Len(audited_df) :
                       audited_df[k].ndvi_change_metric = <<999, 1>>}}

(* C3: no row of the audited table whose metric is the sentinel 999.0 is in *)
(* the training partition, in the evaluation partition, in the scored table *)
(* or in the final index.                                                   *)
C3_SentinelExcluded ==
    /\ SentinelIdx \cap IdxOf(X_train) = {}
    /\ SentinelIdx \cap IdxOf(X_test) = {}
    /\ SentinelIdx \cap IdxOf(X_full) = {}
    /\ SentinelIdx \cap IdxOf(df_with_score) = {}
    /\ SentinelIdx \cap IdxOf(final_index) = {}
    /\ "index" \in ran => Len(index_csv) = Len(df_with_score)
    /\ "train" \in ran =>
          IdxOf(df_with_score) = IdxOf(audited_df) \ SentinelIdx

\* a table with a sentinel row has been split and scored
C3_Witness ==
    /\ "train" \in ran
    /\ SentinelIdx # {}
    /\ X_train # <<>> /\ X_test # <<>> /\ df_with_score # <<>>
    /\ "index" \in ran /\ final_index # <<>>

\* the cell of column f of the audited row labelled k
RawCell(k, f) ==
    LET i == CHOOSE j \in 1..Len(audited_df) : audited_df[j].idx = k
    IN audited_df[i][f]

\* v is the mean of the present cells of column f over the rows labelled K
IsMeanOver(v, K, f) ==
    LET present == {k \in K : IsNum(RawCell(k, f))}
        rows == SelectSeq(audited_df, LAMBDA r : r.idx \in present)
        s == ColSum(Col(rows, f))
    IN IF present = {} THEN IsNaN(v)
       ELSE IsNum(v) /\ v[1] * Cardinality(present) * s[2] = s[1] * v[2]

FilledFrom(X, fill) ==
    \A i \in 1..Len(X) : \A f \in {"total_loan_usd", "cpi_score", "ndvi_change_metric"} :
        X[i][f] = IF IsNaN(RawCell(X[i].idx, f)) THEN fill[f]
                  ELSE RawCell(X[i].idx, f)

(* C4: the fill values are the per-feature means of the training partition  *)
(* alone, the partitions being disjoint, and those same values fill the     *)
(* missing features of the evaluation partition and, at scoring time, of    *)
(* the whole eligible population.                                           *)
C4_NoLeakage ==
    X_train # <<>> =>
        /\ IdxOf(X_train) \cap IdxOf(X_test) = {}
        /\ IdxOf(X_train) \cup IdxOf(X_test) = IdxOf(audited_df) \ SentinelIdx
        /\ \A f \in {"total_loan_usd", "cpi_score", "ndvi_change_metric"} :
              IsMeanOver(mean_imputer[f], IdxOf(X_train), f)
        /\ FilledFrom(X_test, mean_imputer)
        /\ "train" \in ran =>
              /\ FilledFrom(X_full, mean_imputer)
              /\ IdxOf(X_full) = IdxOf(X_train) \cup IdxOf(X_test)

\* a missing feature was filled at scoring time with a training mean that is
\* not the mean of the whole eligible population, and a missing feature of a
\* held-out row was filled
C4_Witness ==
    /\ "train" \in ran
    /\ \E i \in 1..Len(X_full) : \E f \in {"total_loan_usd", "cpi_score"} :
          /\ IsNaN(RawCell(X_full[i].idx, f))
          /\ IsNum(X_full[i][f])
          /\ ~IsMeanOver(mean_imputer[f], IdxOf(X_full), f)
    /\ \E i \in 1..Len(X_test) : \E f \in {"total_loan_usd", "cpi_score"} :
          IsNaN(RawCell(X_test[i].idx, f)) /\ IsNum(X_test[i][f])

(* C6: a failed write of the model artifact is not fatal: once the          *)
(* partitions are made and the artifact could not be written, the function  *)
(* has still returned metrics and the scored table and main goes on to the  *)
(* impact, index and report stages.                                         *)
C6_DumpFailureNonFatal ==
    (X_train # <<>> /\ ~model_file) =>
        /\ model_metrics.computed
        /\ df_with_score # <<>>
        /\ pc \in {"impact", "index", "report", "done"}

AtRisk == SelectSeq(df_with_score,
              LAMBDA r : r.ghost_risk_score[1] * 10 >= 8 * r.ghost_risk_score[2])

\* pct is 0 for a total of 0 and part/total for a positive total
IsRatio(pct, part, total) ==
    /\ IsNum(pct)
    /\ total[1] = 0 => pct = <<0, 1>>
    /\ total[1] > 0 => pct[1] * total[1] * part[2] = part[1] * pct[2] * total[2]

(* C8: measure_impact yields a number for both ratios: 0 when the total of  *)
(* the column is 0, and otherwise the sum over the rows with risk score >=  *)
(* 0.8 divided by the total over all rows.                                  *)
C8_RatioBoundary ==
    "impact" \in ran =>
        LET m == impact_metrics IN
        /\ m.total_portfolio_loan_usd = ColSum(Col(df_with_score, "total_loan_usd"))
        /\ m.total_portfolio_capacity_mw =
              ColSum(Col(df_with_score, "funded_capacity_mw"))
        /\ IsRatio(m.pct_loans_at_risk, ColSum(Col(AtRisk, "total_loan_usd")),
                   m.total_portfolio_loan_usd)
        /\ IsRatio(m.pct_capacity_at_risk,
                   ColSum(Col(AtRisk, "funded_capacity_mw")),
                   m.total_portfolio_capacity_mw)

\* a run in which the financing total is 0 while the capacity total is
\* positive and part of it, not all, is at risk
C8_Witness ==
    /\ "impact" \in ran
    /\ impact_metrics.total_portfolio_loan_usd = Zero
    /\ impact_metrics.pct_loans_at_risk = Zero
    /\ RGt(impact_metrics.pct_capacity_at_risk, Zero)
    /\ RLt(impact_metrics.pct_capacity_at_risk, One)

\* a second run, in which the capacity total is 0 and financing is at risk
C8_WitnessCapacity ==
    /\ "impact" \in ran
    /\ impact_metrics.total_portfolio_capacity_mw = Zero
    /\ impact_metrics.pct_capacity_at_risk = Zero
    /\ RGt(impact_metrics.pct_loans_at_risk, Zero)

(* C9: the final index, as returned and as written to the CSV file, is in   *)
(* descending order of risk score: no row has a lower score than the next.  *)
C9_SortedDescending ==
    "index" \in ran =>
        /\ Len(final_index) = Len(df_with_score)
        /\ Len(index_csv) = Len(final_index)
        /\ \A i \in 1..Len(final_index) - 1 :
              LET a == final_index[i].ghost_risk_score
                  c == final_index[i + 1].ghost_risk_score
              IN a[1] * c[2] >= c[1] * a[2]
        /\ \A i \in 1..Len(index_csv) - 1 :
              LET a == index_csv[i].ghost_risk_score
                  c == index_csv[i + 1].ghost_risk_score
              IN a[1] * c[2] >= c[1] * a[2]
        /\ \A i, j \in 1..Len(final_index) :
              RLt(final_index[i].ghost_risk_score, final_index[j].ghost_risk_score)
                 => j < i

\* an index of three rows with two different scores, the higher one given to
\* a row that the scored table lists last
C9_Witness ==
    /\ "index" \in ran
    /\ Len(final_index) >= 3
    /\ RGt(final_index[1].ghost_risk_score,
           final_index[Len(final_index)].ghost_risk_score)
    /\ final_index[1].idx = df_with_score[Len(df_with_score)].idx

\* the rows of the CSV file that have both coordinates, as map records
MapRowsOfCsv ==
    LET m == SelectSeq(index_csv,
                 LAMBDA r : r.latitude[3] >= 0 /\ r.longitude[3] >= 0)
    IN [i \in 1..Len(m) |->
           [project_name |-> m[i].project_name, country |-> m[i].country,
            latitude |-> m[i].latitude, longitude |-> m[i].longitude,
            ghost_risk_score |-> m[i].ghost_risk_score]]

(* C10: the JSON record list is exactly the rows of the tabular file that   *)
(* have both latitude and longitude, in the same order and with the same    *)
(* name, country, coordinates and risk score.                               *)
C10_ArtifactsConsistent ==
    "index" \in ran => index_json = MapRowsOfCsv

\* the JSON record list has the rows of the tabular file that have both
\* coordinates, in the same order and with the same name, country and score
C10_SameRows ==
    "index" \in ran =>
        /\ Len(index_json) = Len(MapRowsOfCsv)
        /\ \A i \in 1..Len(index_json) :
              /\ index_json[i].project_name = MapRowsOfCsv[i].project_name
              /\ index_json[i].country = MapRowsOfCsv[i].country
              /\ index_json[i].ghost_risk_score = MapRowsOfCsv[i].ghost_risk_score

C11_WitnessType ==
    /\ pc = "crashed"
    /\ raw_missing = {} /\ raw_unreadable = {"gem_trackers_raw.csv"}
    /\ ran = {} /\ master_csv = <<>>


(* C12: when generate_report_html does not find the template, it returns    *)
(* without writing a report, and the master table, the model, the metrics   *)
(* and the index (table, CSV and JSON) written before are left as they are. *)
C12_TemplateMissingReportOnly ==
    [][(pc = "report" /\ template_ok' = FALSE) =>
          /\ pc' = "done"
          /\ report_html' = FALSE
          /\ model_file' = TRUE
          /\ UNCHANGED <<master_df, master_csv, model_file, model_metrics,
                         df_with_score, impact_metrics, final_index,
                         index_csv, index_json>>]_vars

\* a run has ended without template and without report, the model, the
\* metrics and a non-empty index being in place
C12_Witness ==
    /\ pc = "done" /\ "report" \in ran
    /\ ~template_ok /\ ~report_html
    /\ model_file /\ model_metrics.computed /\ impact_metrics.computed
    /\ master_csv # <<>> /\ index_csv # <<>> /\ index_json # <<>>

(* C14: measure_impact changes nothing of the table main gives it but the   *)
(* financing and capacity cells, where a missing or unparseable value       *)
(* becomes 0 (same rows, same other columns); create_final_index, called    *)
(* next on that table, writes an index in which both cells of every project *)
(* are numbers, 0 where the audited table had no number.                    *)
C14_CoercionVisibleInIndex ==
    [][/\ pc = "impact" =>
            /\ Len(df_with_score') = Len(df_with_score)
            /\ \A i \in 1..Len(df_with_score) :
                  /\ DOMAIN df_with_score'[i] = DOMAIN df_with_score[i]
                  /\ \A f \in DOMAIN df_with_score[i] :
                        df_with_score'[i][f] =
                           IF f \in {"total_loan_usd", "funded_capacity_mw"}
                                /\ df_with_score[i][f][2] <= 0
                             THEN <<0, 1>>
                             ELSE df_with_score[i][f]
       /\ pc = "index" =>
            /\ Len(final_index') = Len(df_with_score)
            /\ Len(index_csv') = Len(final_index')
            /\ \A i \in 1..Len(final_index') :
                  \A f \in {"total_loan_usd", "funded_capacity_mw"} :
                     /\ final_index'[i][f][2] > 0
                     /\ final_index'[i][f] =
                           IF RawCell(final_index'[i].idx, f)[2] > 0
                             THEN RawCell(final_index'[i].idx, f)
                             ELSE <<0, 1>>
                     /\ index_csv'[i][f] = final_index'[i][f]]_vars

\* the index lists a project of a country without any financing record with
\* a proxy of 0, and a project whose capacity was text with a capacity of 0
C14_Witness ==
    /\ "index" \in ran
    /\ \A k \in 1..Len(adb_df) : adb_df[k].country # "B"
    /\ \E i, j \in 1..Len(final_index) :
          /\ final_index[i].country = "B"
          /\ RawCell(final_index[i].idx, "total_loan_usd") = <<0, 0>>
          /\ final_index[i].total_loan_usd = <<0, 1>>
          /\ index_csv[i].total_loan_usd = <<0, 1>>
          /\ RawCell(final_index[j].idx, "funded_capacity_mw") = <<0, -1>>
          /\ final_index[j].funded_capacity_mw = <<0, 1>>


(* C13: get_ndvi_change returns the sentinel 999.0 exactly when the query   *)
(* raises or a period mean is absent; whenever both means are obtained, a   *)
(* mean of zero included, it returns the start mean minus the end mean.     *)
C13_SentinelIffNoData ==
    pc = "sensed" =>
        LET q == gee_outcome
            nodata == q.raises \/ q.mean_start[2] = 0 \/ q.mean_end[2] = 0
        IN /\ ndvi_change = <<999, 1>> <=> nodata
           /\ ~nodata =>
                 /\ ndvi_change[2] > 0
                 /\ ndvi_change[1] * q.mean_start[2] * q.mean_end[2] =
                       ndvi_change[2] * (q.mean_start[1] * q.mean_end[2]
                                         - q.mean_end[1] * q.mean_start[2])

\* a query that raises or lacks a mean yields the sentinel and the call
\* returns; two means other than zero yield their difference
C13_FailureDegrades ==
    pc = "sensed" =>
        LET q == gee_outcome
            nodata == q.raises \/ q.mean_start[2] = 0 \/ q.mean_end[2] = 0
        IN /\ nodata => ndvi_change = <<999, 1>>
           /\ (~nodata /\ q.mean_start[1] # 0 /\ q.mean_end[1] # 0) =>
                 /\ ndvi_change # <<999, 1>>
                 /\ ndvi_change[2] > 0
                 /\ ndvi_change[1] * q.mean_start[2] * q.mean_end[2] =
                       ndvi_change[2] * (q.mean_start[1] * q.mean_end[2]
                                         - q.mean_end[1] * q.mean_start[2])

===========================================================================
